---- MODULE Spec2Model ----
(***************************************************************************)
(* Model of package static (src/static.go): hashed static asset URLs.     *)
(* CombinedURL reads the named files, hashes their concatenation, stores  *)
(* it in the process-wide cache table and returns /static/<hex10>/<names>;*)
(* Handle serves a request from that table.                                *)
(*                                                                         *)
(* A Go string is modelled as a sequence of one-character strings, a byte *)
(* slice as a sequence of byte characters.                                 *)
(***************************************************************************)
EXTENDS Integers, Sequences, FiniteSets, TLC

\* ------------------------------------------------------------------ bounds
\* longest content of one file, in bytes
MaxLen == 1
\* modification times of files range over 1..MaxTime (0 is the zero time.Time)
MaxTime == 2
\* most entries the cache table holds in a run
MaxCache == 2

\* ------------------------------------------------------ program constants
\* const Path = "/static/"
Path == <<"/", "s", "t", "a", "t", "i", "c", "/">>
\* hex[:10]
DigestLen == 10
\* time.Hour*87658, the default of flag static.max-age
DefaultMaxAgeHours == 87658
SecondsPerHour == 3600
NanosPerSecond == 1000000000
\* body written by notFound
NotFoundBody == "static resource not found!"

\* ------------------------------------------------------------ string library
Slash == "/"

\* strings.HasPrefix
HasPrefix(s, prefix) ==
    /\ Len(s) >= Len(prefix)
    /\ SubSeq(s, 1, Len(prefix)) = prefix

\* the first index of c in s at or after i (0 when absent)
RECURSIVE IndexFrom(_, _, _)
IndexFrom(s, c, i) ==
    IF i > Len(s) THEN 0
    ELSE IF s[i] = c THEN i
    ELSE IndexFrom(s, c, i + 1)

\* strings.Index for a one-character separator (0 when absent)
IndexOf(s, c) == IndexFrom(s, c, 1)

\* strings.Split(s, sep) for a one-character separator
RECURSIVE Split(_, _)
Split(s, sep) ==
    LET i == IndexOf(s, sep)
    IN  IF i = 0 THEN <<s>>
        ELSE <<SubSeq(s, 1, i - 1)>> \o Split(SubSeq(s, i + 1, Len(s)), sep)

\* strings.Join(list, sep)
RECURSIVE Join(_, _)
Join(list, sep) ==
    IF Len(list) = 0 THEN <<>>
    ELSE IF Len(list) = 1 THEN list[1]
    ELSE list[1] \o sep \o Join(Tail(list), sep)

\* the index of the last occurrence of c in s (0 when absent)
LastIndexOf(s, c) ==
    IF \E i \in 1..Len(s) : s[i] = c
    THEN CHOOSE i \in 1..Len(s) : s[i] = c /\ \A j \in (i + 1)..Len(s) : s[j] # c
    ELSE 0

\* s without its trailing slashes
RECURSIVE StripTrailingSlashes(_)
StripTrailingSlashes(s) ==
    IF Len(s) > 0 /\ s[Len(s)] = Slash
    THEN StripTrailingSlashes(SubSeq(s, 1, Len(s) - 1))
    ELSE s

\* filepath.Base: the last element of the path, trailing slashes removed;
\* "." for the empty path, "/" for a path of slashes only
Base(name) ==
    IF name = <<>> THEN <<".">>
    ELSE LET p == StripTrailingSlashes(name)
             q == SubSeq(p, LastIndexOf(p, Slash) + 1, Len(p))
         IN  IF q = <<>> THEN <<Slash>> ELSE q

\* path.Clean's walk over the elements of a path: empty and "." elements are
\* dropped, ".." removes the element before it (at the root it is dropped, at
\* the start of a relative path it is kept)
RECURSIVE CleanElems(_, _, _)
CleanElems(elems, out, rooted) ==
    IF elems = <<>> THEN out
    ELSE LET e == Head(elems)
             rest == Tail(elems)
         IN  IF e = <<>> \/ e = <<".">> THEN CleanElems(rest, out, rooted)
             ELSE IF e = <<".", ".">>
             THEN IF out # <<>> /\ out[Len(out)] # <<".", ".">>
                  THEN CleanElems(rest, SubSeq(out, 1, Len(out) - 1), rooted)
                  ELSE IF rooted THEN CleanElems(rest, out, rooted)
                  ELSE CleanElems(rest, Append(out, e), rooted)
             ELSE CleanElems(rest, Append(out, e), rooted)

\* path.Clean
Clean(p) ==
    IF p = <<>> THEN <<".">>
    ELSE LET rooted == p[1] = Slash
             body == Join(CleanElems(Split(p, Slash), <<>>, rooted), <<Slash>>)
             r == IF rooted THEN <<Slash>> \o body ELSE body
         IN  IF r = <<>> THEN <<".">> ELSE r

\* path.Join: the elements from the first non-empty one on, joined by "/",
\* then cleaned; "" when every element is empty
RECURSIVE PathJoin(_)
PathJoin(elems) ==
    IF elems = <<>> THEN <<>>
    ELSE IF Head(elems) = <<>> THEN PathJoin(Tail(elems))
    ELSE Clean(Join(elems, <<Slash>>))

\* ----------------------------------------------------------------- hashing
\* crypto/md5 is abstracted by a small multiplicative hash over the bytes
\* written so far: like md5 it is a function of the byte stream alone, it
\* depends on the order of the bytes, and its range is finite, so distinct
\* streams can share a digest.  The %x rendering and the truncation to the
\* first DigestLen characters are kept as in the source.
HashMod == 11
HashMul == 2
HashIV == 10
\* hex characters of an md5 sum (16 bytes)
HexLen == 32
HexDigits ==
    <<"0", "1", "2", "3", "4", "5", "6", "7", "8", "9", "a", "b", "c", "d", "e", "f">>

\* the bytes file contents are made of, with their values
ByteChars == <<"1", "2">>
\* one more byte, for the files whose bytes are changed one at a time
ExtraByte == "<"
ByteVal(b) ==
    IF b = ExtraByte THEN 60
    ELSE 48 + (CHOOSE i \in 1..Len(ByteChars) : ByteChars[i] = b)

\* md5.New()
Md5New == HashIV

\* h.Write(content)
RECURSIVE Md5Write(_, _)
Md5Write(h, content) ==
    IF content = <<>> THEN h
    ELSE Md5Write((h * HashMul + ByteVal(Head(content))) % HashMod, Tail(content))

\* fmt.Sprintf("%x", h.Sum(nil)): HexLen lowercase hex characters
Md5Hex(h) ==
    [i \in 1..HexLen |-> HexDigits[(((h + 1) * (2 * i - 1) + i) % 16) + 1]]

\* HexPrefix as it would be if it kept one character less
HexPrefixShort(hex) == SubSeq(hex, 1, DigestLen - 1)

\* hex[:10]
HexPrefix(hex) == SubSeq(hex, 1, DigestLen)

\* hex[:10] of the sum of every hash state h, tabulated at index h + 1
DigestTable == <<>> \o [k \in 1..HashMod |-> HexPrefix(Md5Hex(k - 1))]

\* ------------------------------------------------------------- file system
NameA == <<"a", ".", "j", "s">>
NameB == <<"j", "s", "/", "b", ".", "j", "s">>
Names == {NameA, NameB}

\* the byte strings of at most n bytes
RECURSIVE BytesUpTo(_)
BytesUpTo(n) ==
    IF n = 0 THEN {<<>>}
    ELSE LET shorter == BytesUpTo(n - 1)
         IN  shorter \cup
             {Append(s, ByteChars[i]) : s \in shorter, i \in 1..Len(ByteChars)}

Contents == BytesUpTo(MaxLen)
ModTimes == 1..MaxTime

\* a name the file root does not hold
Missing == [exists |-> FALSE, content |-> <<>>, modTime |-> 0]
File(content, modTime) == [exists |-> TRUE, content |-> content, modTime |-> modTime]

\* the lists of names CombinedURL is called with (URL makes the calls with
\* one name)
NameLists == {<<>>, <<NameA, NameB>>, <<NameB, NameA>>}

\* an I/O failure of the call: none, or the stat or read of the i-th named
\* file fails (Open fails for the names the file root does not hold)
NoFault == <<0, "none">>
Faults(names) ==
    {NoFault} \cup {<<i, k>> : i \in 1..Len(names), k \in {"stat", "read"}}

\* ------------------------------------------------------------------- state
VARIABLES
    fs,           \* the file root: name -> file (SetDir's directory)
    cache,        \* var cache = make(map[string]cacheEntry)
    cacheMaxAge,  \* flag static.max-age, a time.Duration
    cacheEnable,  \* flag static.cache
    last,         \* the last call made and what it returned
    held,         \* a URL a client keeps, with the bytes hashed to make it
    threads,      \* the goroutines inside CombinedURL or Handle
    noted,        \* an earlier resolution: its names, its URL, the files then
    helpers       \* the LinkStyle, Script and Img helpers: their cache fields

vars == <<fs, cache, cacheMaxAge, cacheEnable, last, held, threads, noted,
         helpers>>

\* a time.Duration of sec seconds and nsec nanoseconds
Duration(sec, nsec) == [sec |-> sec, nsec |-> nsec]
DefaultMaxAge == Duration(DefaultMaxAgeHours * SecondsPerHour, 0)
MaxAges == {DefaultMaxAge, Duration(1, NanosPerSecond \div 2)}

\* make(map[string]cacheEntry)
EmptyCache == [k \in {} |-> 0]

\* type cacheEntry struct { Content []byte; ModTime time.Time }
CacheEntry(content, modTime) == [Content |-> content, ModTime |-> modTime]

\* MapAssign as it would be if the table were made anew on every store
MapAssignFresh(table, key, ce) == [k \in {key} |-> ce]

\* cache[key] = ce
MapAssign(table, key, ce) ==
    [k \in DOMAIN table \cup {key} |-> IF k = key THEN ce ELSE table[k]]

\* --------------------------------------------------------------- resolver
\* func joinBasenames(names []string) string
joinBasenames(names) ==
    Join([i \in 1..Len(names) |-> Base(names[i])], <<"-">>)

\* path.Join(Path, hexS, joinBasenames(names)), tabulated for every list of
\* names and every hash state (at index h + 1)
URLTable ==
    [names \in NameLists \cup {<<n>> : n \in Names} |->
        <<>> \o [k \in 1..HashMod |->
                   PathJoin(<<Path, DigestTable[k], joinBasenames(names)>>)]] @@ <<>>

\* ReadFiles as it would be if the hash were created inside the loop, so that
\* only the last file is hashed
RECURSIVE ReadFilesHashPerFile(_, _, _, _, _, _)
ReadFilesHashPerFile(names, i, ce, h, fsys, fault) ==
    IF i > Len(names) THEN [err |-> "", ce |-> ce, h |-> h]
    ELSE LET f == fsys[names[i]]
         IN  IF ~f.exists
             THEN [err |-> "open", ce |-> ce, h |-> h]
             ELSE IF fault = <<i, "stat">>
             THEN [err |-> "stat", ce |-> ce, h |-> h]
             ELSE LET ce1 == IF ce.ModTime < f.modTime
                             THEN [ce EXCEPT !.ModTime = f.modTime]
                             ELSE ce
                  IN  IF fault = <<i, "read">>
                      THEN [err |-> "read", ce |-> ce1, h |-> h]
                      ELSE ReadFilesHashPerFile(names, i + 1,
                                     [ce1 EXCEPT !.Content = @ \o f.content],
                                     Md5Write(Md5New, f.content), fsys, fault)

\* ReadFiles as it would be if the entry took the modification time of the
\* file read last
RECURSIVE ReadFilesLastModTime(_, _, _, _, _, _)
ReadFilesLastModTime(names, i, ce, h, fsys, fault) ==
    IF i > Len(names) THEN [err |-> "", ce |-> ce, h |-> h]
    ELSE LET f == fsys[names[i]]
         IN  IF ~f.exists
             THEN [err |-> "open", ce |-> ce, h |-> h]
             ELSE IF fault = <<i, "stat">>
             THEN [err |-> "stat", ce |-> ce, h |-> h]
             ELSE LET ce1 == [ce EXCEPT !.ModTime = f.modTime]
                  IN  IF fault = <<i, "read">>
                      THEN [err |-> "read", ce |-> ce1, h |-> h]
                      ELSE ReadFilesLastModTime(names, i + 1,
                                     [ce1 EXCEPT !.Content = @ \o f.content],
                                     Md5Write(h, f.content), fsys, fault)

\* ReadFiles as it would be if each file's modification time were hashed
\* after its content
RECURSIVE ReadFilesHashModTime(_, _, _, _, _, _)
ReadFilesHashModTime(names, i, ce, h, fsys, fault) ==
    IF i > Len(names) THEN [err |-> "", ce |-> ce, h |-> h]
    ELSE LET f == fsys[names[i]]
         IN  IF ~f.exists
             THEN [err |-> "open", ce |-> ce, h |-> h]
             ELSE IF fault = <<i, "stat">>
             THEN [err |-> "stat", ce |-> ce, h |-> h]
             ELSE LET ce1 == IF ce.ModTime < f.modTime
                             THEN [ce EXCEPT !.ModTime = f.modTime]
                             ELSE ce
                  IN  IF fault = <<i, "read">>
                      THEN [err |-> "read", ce |-> ce1, h |-> h]
                      ELSE ReadFilesHashModTime(names, i + 1,
                                     [ce1 EXCEPT !.Content = @ \o f.content],
                                     Md5Write(h, f.content \o <<ByteChars[f.modTime]>>),
                                     fsys, fault)

\* the loop of CombinedURL from its i-th name on: ce and h are the entry and
\* the hash built so far; err is "" when every file was read
RECURSIVE ReadFiles(_, _, _, _, _, _)
ReadFiles(names, i, ce, h, fsys, fault) ==
    IF i > Len(names) THEN [err |-> "", ce |-> ce, h |-> h]
    ELSE LET f == fsys[names[i]]
         IN  IF ~f.exists
             THEN [err |-> "open", ce |-> ce, h |-> h]
             ELSE IF fault = <<i, "stat">>
             THEN [err |-> "stat", ce |-> ce, h |-> h]
             ELSE LET ce1 == IF ce.ModTime < f.modTime
                             THEN [ce EXCEPT !.ModTime = f.modTime]
                             ELSE ce
                  IN  IF fault = <<i, "read">>
                      THEN [err |-> "read", ce |-> ce1, h |-> h]
                      ELSE ReadFiles(names, i + 1,
                                     [ce1 EXCEPT !.Content = @ \o f.content],
                                     Md5Write(h, f.content), fsys, fault)

\* CombinedURL as it would be if it stored the entry under the whole hex sum
CombinedURLFullHexKey(names, fsys, table, fault) ==
    LET r == ReadFiles(names, 1, CacheEntry(<<>>, 0), Md5New, fsys, fault)
        hexS == DigestTable[r.h + 1]
    IN  IF r.err # ""
        THEN [url |-> <<>>, err |-> r.err, table |-> table,
              key |-> <<>>, content |-> <<>>]
        ELSE [url |-> URLTable[names][r.h + 1],
              err |-> "", table |-> MapAssign(table, Md5Hex(r.h), r.ce),
              key |-> hexS, content |-> r.ce.Content]

\* CombinedURL as it would be if it refused a list of no names
CombinedURLRejectsEmpty(names, fsys, table, fault) ==
    LET r == ReadFiles(names, 1, CacheEntry(<<>>, 0), Md5New, fsys, fault)
        hexS == DigestTable[r.h + 1]
    IN  IF r.err # "" \/ names = <<>>
        THEN [url |-> <<>>, err |-> IF names = <<>> THEN "empty" ELSE r.err,
              table |-> table, key |-> <<>>, content |-> <<>>]
        ELSE [url |-> URLTable[names][r.h + 1],
              err |-> "", table |-> MapAssign(table, hexS, r.ce),
              key |-> hexS, content |-> r.ce.Content]

\* CombinedURL as it would be if a failed resolution emptied the table
CombinedURLDropsOnError(names, fsys, table, fault) ==
    LET r == ReadFiles(names, 1, CacheEntry(<<>>, 0), Md5New, fsys, fault)
        hexS == DigestTable[r.h + 1]
    IN  IF r.err # ""
        THEN [url |-> <<>>, err |-> r.err, table |-> EmptyCache,
              key |-> <<>>, content |-> <<>>]
        ELSE [url |-> URLTable[names][r.h + 1],
              err |-> "", table |-> MapAssign(table, hexS, r.ce),
              key |-> hexS, content |-> r.ce.Content]

\* CombinedURL as it would be if it stored what it has read so far before
\* returning an error
CombinedURLStoreOnError(names, fsys, table, fault) ==
    LET r == ReadFiles(names, 1, CacheEntry(<<>>, 0), Md5New, fsys, fault)
        hexS == DigestTable[r.h + 1]
    IN  IF r.err # ""
        THEN [url |-> <<>>, err |-> r.err, table |-> MapAssign(table, hexS, r.ce),
              key |-> <<>>, content |-> <<>>]
        ELSE [url |-> URLTable[names][r.h + 1],
              err |-> "", table |-> MapAssign(table, hexS, r.ce),
              key |-> hexS, content |-> r.ce.Content]

\* func CombinedURL(names []string) (string, error): the URL and error it
\* returns, the table it leaves, and the key and bytes it stored
CombinedURLResult(names, fsys, table, fault) ==
    LET r == ReadFiles(names, 1, CacheEntry(<<>>, 0), Md5New, fsys, fault)
        hexS == DigestTable[r.h + 1]
    IN  IF r.err # ""
        THEN [url |-> <<>>, err |-> r.err, table |-> table,
              key |-> <<>>, content |-> <<>>]
        ELSE [url |-> URLTable[names][r.h + 1],
              err |-> "", table |-> MapAssign(table, hexS, r.ce),
              key |-> hexS, content |-> r.ce.Content]

\* func URL(name string) (string, error)
URLResult(name, fsys, table, fault) ==
    CombinedURLResult(<<name>>, fsys, table, fault)

\* ------------------------------------------------------------- dispatcher
\* int(cacheMaxAge.Seconds()): Seconds() is float64(sec) + float64(nsec)/1e9
\* and int() drops the fraction
MaxAgeSeconds(d) == d.sec

\* an HTTP response: status, the two headers the package sets, Last-Modified
\* (0 when not sent) and the body
Response(status, cacheControl, pragma, lastModified, body) ==
    [status |-> status, cacheControl |-> cacheControl, pragma |-> pragma,
     lastModified |-> lastModified, body |-> body]

\* notFound as it would be without its Pragma header
notFoundNoPragma == Response(404, <<"no-cache">>, "", 0, NotFoundBody)

\* func notFound(w http.ResponseWriter, r *http.Request)
notFound == Response(404, <<"no-cache">>, "no-cache", 0, NotFoundBody)

\* http.ServeContent for a GET without conditional or Range headers: 200 with
\* the whole content, and Last-Modified when modtime is not the zero time
ServeContent(cacheControl, modTime, content) ==
    Response(200, cacheControl, "", modTime, content)

\* Handle as it would be if it remembered the digests it did not find
HandleStoreMiss(path, table, maxAge) ==
    IF ~HasPrefix(path, Path) THEN [resp |-> notFound, table |-> table]
    ELSE LET parts == Split(path, Slash)
         IN  IF Len(parts) < 3 THEN [resp |-> notFound, table |-> table]
             ELSE IF parts[3] \notin DOMAIN table
             THEN [resp |-> notFound,
                   table |-> MapAssign(table, parts[3], CacheEntry(<<>>, 0))]
             ELSE LET ce == table[parts[3]]
                  IN  [resp |-> ServeContent(
                                  <<"public, max-age=", MaxAgeSeconds(maxAge)>>,
                                  ce.ModTime, ce.Content),
                       table |-> table]

\* Handle as it would be if it asked for a segment after the digest
HandleNeedsTrailer(path, table, maxAge) ==
    IF ~HasPrefix(path, Path) THEN [resp |-> notFound, table |-> table]
    ELSE LET parts == Split(path, Slash)
         IN  IF Len(parts) < 4 THEN [resp |-> notFound, table |-> table]
             ELSE IF parts[3] \notin DOMAIN table
             THEN [resp |-> notFound, table |-> table]
             ELSE LET ce == table[parts[3]]
                  IN  [resp |-> ServeContent(
                                  <<"public, max-age=", MaxAgeSeconds(maxAge)>>,
                                  ce.ModTime, ce.Content),
                       table |-> table]

\* func Handle(w http.ResponseWriter, r *http.Request): the response to a GET
\* of path, and the table the call leaves (parts[2] of the source is parts[3]
\* here: sequences start at 1)
HandleResult(path, table, maxAge) ==
    IF ~HasPrefix(path, Path) THEN [resp |-> notFound, table |-> table]
    ELSE LET parts == Split(path, Slash)
         IN  IF Len(parts) < 3 THEN [resp |-> notFound, table |-> table]
             ELSE IF parts[3] \notin DOMAIN table
             THEN [resp |-> notFound, table |-> table]
             ELSE LET ce == table[parts[3]]
                  IN  [resp |-> ServeContent(
                                  <<"public, max-age=", MaxAgeSeconds(maxAge)>>,
                                  ce.ModTime, ce.Content),
                       table |-> table]

\* ------------------------------------------------------------ the program
\* no response: the last call was not a request
NoResponse == Response(0, <<>>, "", 0, <<>>)

\* the record of a call: op names it; names, err, url, key and content are a
\* resolution's arguments and results; path and resp a request's; after is,
\* for a request of the URL that the call immediately before it returned,
\* <<url, content>> of that call (<<>> for any other request)
NoCall ==
    [op |-> "none", names |-> <<>>, err |-> "", url |-> <<>>, key |-> <<>>,
     content |-> <<>>, path |-> <<>>, resp |-> NoResponse,
     after |-> <<>>]

Resolved(c) == c.op \in {"CombinedURL", "URL"} /\ c.err = ""

\* a digest no resolution produces
UnknownDigest == <<"d", "e", "a", "d", "b", "e", "e", "f", "0", "0">>

\* what follows the digest in a request path: nothing, or a name under the
\* file root
Trailers == {<<>>, <<Slash>> \o NameB}

\* the paths requests are made for: a digest (a key of the table, one never
\* produced, or none) under the static prefix with a trailer; paths outside
\* the prefix; and the URLs handed out
RequestPaths ==
    {Path \o d \o t : d \in DOMAIN cache \cup {UnknownDigest, <<>>}, t \in Trailers}
    \cup {SubSeq(Path, 1, Len(Path) - 1), <<Slash>> \o NameA}
    \cup (IF Resolved(last) THEN {last.url} ELSE {})
    \cup (IF held # <<>> THEN {held[1]} ELSE {})

\* the goroutines of the process
Threads == {1, 2}

\* a goroutine outside CombinedURL and Handle
Idle == [pc |-> "idle", key |-> <<>>, ce |-> CacheEntry(<<>>, 0), url |-> <<>>,
         path |-> <<>>, raced |-> FALSE]

\* the helper objects of a page: a LinkStyle, a Script and an Img
Helpers == {"LinkStyle", "Script", "Img"}

\* the files a helper refers to: LinkStyle.HREF and Script.Src are lists of
\* names, Img.Src is one name
HelperSrc ==
    [h \in Helpers |->
        CASE h = "LinkStyle" -> <<NameA, NameB>>
          [] h = "Script" -> <<NameB, NameA>>
          [] h = "Img" -> <<NameA>>]

\* a helper as constructed: its cache field is nil (<<>> here; a rendered
\* node is <<url>>)
NewHelper == [cache |-> <<>>]

\* the state after construction, the flags as given
InitWith(maxAges, enables) ==
    /\ fs \in [Names -> {Missing} \cup {File(c, 1) : c \in Contents}]
    /\ cache = EmptyCache
    /\ cacheMaxAge \in maxAges
    /\ cacheEnable \in enables
    /\ last = NoCall
    /\ held = <<>>
    /\ threads = [t \in Threads |-> Idle]
    /\ noted = <<>>
    /\ helpers = [h \in Helpers |-> NewHelper]

\* static.cache at its default, any max age
Init == InitWith(MaxAges, {TRUE})

\* a file of the root is written (created, changed or touched)
WriteFile(name, content, modTime) ==
    /\ fs' = [fs EXCEPT ![name] = File(content, modTime)]
    /\ last' = [NoCall EXCEPT !.op = "WriteFile"]
    /\ UNCHANGED <<cache, cacheMaxAge, cacheEnable, held, threads, noted, helpers>>

\* a file of the root is removed
RemoveFile(name) ==
    /\ fs[name].exists
    /\ fs' = [fs EXCEPT ![name] = Missing]
    /\ last' = [NoCall EXCEPT !.op = "RemoveFile"]
    /\ UNCHANGED <<cache, cacheMaxAge, cacheEnable, held, threads, noted, helpers>>

\* a call of CombinedURL(names)
CombinedURL(names, fault) ==
    LET r == CombinedURLResult(names, fs, cache, fault)
    IN  /\ Cardinality(DOMAIN r.table) <= MaxCache
        /\ cache' = r.table
        /\ last' = [NoCall EXCEPT !.op = "CombinedURL", !.names = names,
                                  !.err = r.err, !.url = r.url, !.key = r.key,
                                  !.content = r.content]
        /\ UNCHANGED <<fs, cacheMaxAge, cacheEnable, held, threads, noted, helpers>>

\* a call of URL(name)
URL(name, fault) ==
    LET r == URLResult(name, fs, cache, fault)
    IN  /\ Cardinality(DOMAIN r.table) <= MaxCache
        /\ cache' = r.table
        /\ last' = [NoCall EXCEPT !.op = "URL", !.names = <<name>>,
                                  !.err = r.err, !.url = r.url, !.key = r.key,
                                  !.content = r.content]
        /\ UNCHANGED <<fs, cacheMaxAge, cacheEnable, held, threads, noted, helpers>>

\* a GET request for path dispatched to Handle
Handle(path) ==
    LET r == HandleResult(path, cache, cacheMaxAge)
    IN  /\ cache' = r.table
        /\ last' = [NoCall EXCEPT
                      !.op = "Handle", !.path = path, !.resp = r.resp,
                      !.after = IF Resolved(last) /\ last.url = path
                                THEN <<last.url, last.content>>
                                ELSE <<>>]
        /\ UNCHANGED <<fs, cacheMaxAge, cacheEnable, held, threads, noted, helpers>>

\* a client keeps the URL the resolver just returned
ClientHold ==
    /\ Resolved(last)
    /\ held = <<>>
    /\ held' = <<last.url, last.content>>
    /\ UNCHANGED <<fs, cache, cacheMaxAge, cacheEnable, last, threads, noted, helpers>>

Next ==
    \/ \E name \in Names, content \in Contents, modTime \in ModTimes :
          WriteFile(name, content, modTime)
    \/ \E name \in Names : RemoveFile(name)
    \/ \E names \in NameLists : \E fault \in Faults(names) :
          CombinedURL(names, fault)
    \/ \E name \in Names : \E fault \in Faults(<<name>>) : URL(name, fault)
    \/ \E path \in RequestPaths : Handle(path)

Spec == Init /\ [][Next]_vars

\* the in-memory cache switched off (-static.cache=false)
InitNoCache == InitWith({DefaultMaxAge}, {FALSE})
SpecNoCache == InitNoCache /\ [][Next]_vars

\* ------------------------------------------------- a client holding a URL
\* the client fetches the URL it holds
ClientFetch ==
    /\ held # <<>>
    /\ Handle(held[1])

InitClient == InitWith({DefaultMaxAge}, {TRUE})

NextClient ==
    \/ \E name \in Names, content \in Contents : WriteFile(name, content, MaxTime)
    \/ \E name \in Names : RemoveFile(name)
    \/ \E names \in NameLists : \E fault \in Faults(names) :
          CombinedURL(names, fault)
    \/ \E name \in Names : \E fault \in Faults(<<name>>) : URL(name, fault)
    \/ ClientHold
    \/ ClientFetch

SpecClient == InitClient /\ [][NextClient]_vars

\* ------------------------------------------- the same list resolved twice
\* the caller notes the resolution just made: its names, the URL it returned
\* and the content each named file had
Note ==
    /\ Resolved(last)
    /\ noted = <<>>
    /\ noted' = <<last.names, last.url,
                  [i \in 1..Len(last.names) |-> fs[last.names[i]].content]>>
    /\ last' = [NoCall EXCEPT !.op = "Note"]
    /\ UNCHANGED <<fs, cache, cacheMaxAge, cacheEnable, held, threads, helpers>>

\* a request for the URL noted
NotedFetch ==
    /\ noted # <<>>
    /\ Handle(noted[2])

InitTwice == InitWith({DefaultMaxAge}, {TRUE})

NextTwice ==
    \/ \E name \in Names, content \in Contents, modTime \in ModTimes :
          WriteFile(name, content, modTime)
    \/ \E name \in Names : RemoveFile(name)
    \/ \E names \in NameLists : CombinedURL(names, NoFault)
    \/ \E name \in Names : URL(name, NoFault)
    \/ Note
    \/ NotedFetch

SpecTwice == InitTwice /\ [][NextTwice]_vars

\* ------------------------------------------------ one byte of a file changed
\* the byte strings of at most MaxLen bytes over ByteChars and ExtraByte
RECURSIVE WideBytesUpTo(_)
WideBytesUpTo(n) ==
    IF n = 0 THEN {<<>>}
    ELSE LET shorter == WideBytesUpTo(n - 1)
         IN  shorter \cup
             {Append(s, b) : s \in shorter,
                             b \in {ByteChars[i] : i \in 1..Len(ByteChars)} \cup {ExtraByte}}

WideContents == WideBytesUpTo(MaxLen)

\* the i-th byte of a file of the root is replaced by another byte
ChangeByte(name, i, b) ==
    /\ fs[name].exists
    /\ i \in 1..Len(fs[name].content)
    /\ fs[name].content[i] # b
    /\ fs' = [fs EXCEPT ![name] =
                 File([fs[name].content EXCEPT ![i] = b], MaxTime)]
    /\ last' = [NoCall EXCEPT !.op = "ChangeByte", !.names = <<name>>]
    /\ UNCHANGED <<cache, cacheMaxAge, cacheEnable, held, threads, noted, helpers>>

InitBytes ==
    /\ fs \in [Names -> {Missing} \cup {File(c, 1) : c \in WideContents}]
    /\ cache = EmptyCache
    /\ cacheMaxAge = DefaultMaxAge
    /\ cacheEnable = TRUE
    /\ last = NoCall
    /\ held = <<>>
    /\ threads = [t \in Threads |-> Idle]
    /\ noted = <<>>
    /\ helpers = [h \in Helpers |-> NewHelper]

NextBytes ==
    \/ \E name \in Names, i \in 1..MaxLen,
          b \in {ByteChars[j] : j \in 1..Len(ByteChars)} \cup {ExtraByte} :
          ChangeByte(name, i, b)
    \/ \E names \in NameLists : CombinedURL(names, NoFault)
    \/ \E name \in Names : URL(name, NoFault)
    \/ Note

SpecBytes == InitBytes /\ [][NextBytes]_vars

\* ------------------------------- the variant without the in-memory table
\* http.Dir.Open(name): the name is cleaned as a rooted path and opened under
\* the file root; what is opened is a file of the root, a directory (the root
\* itself, or a directory that a name of the root lies in), or nothing
DirOpen(fsys, name) ==
    LET rel == Tail(Clean(<<Slash>> \o name))
    IN  IF rel = <<>> \/ \E n \in Names : HasPrefix(n, rel \o <<Slash>>)
        THEN [kind |-> "dir", file |-> Missing]
        ELSE IF rel \in Names /\ fsys[rel].exists
        THEN [kind |-> "file", file |-> fsys[rel]]
        ELSE [kind |-> "none", file |-> Missing]

\* func URL(name string) (string, error) of the variant: the file is opened
\* and read, and the URL ends in the name itself
URLOfFileResult(name, fsys, fault) ==
    LET o == DirOpen(fsys, name)
    IN  IF o.kind = "none" THEN [url |-> <<>>, err |-> "open", key |-> <<>>,
                                 content |-> <<>>]
        ELSE IF o.kind = "dir" \/ fault = <<1, "read">>
        THEN [url |-> <<>>, err |-> "read", key |-> <<>>, content |-> <<>>]
        ELSE LET hexS == HexPrefix(Md5Hex(Md5Write(Md5New, o.file.content)))
             IN  [url |-> PathJoin(<<Path, hexS, name>>), err |-> "",
                  key |-> hexS, content |-> o.file.content]

\* Handle of the variant as it would be if the digest segment were kept in
\* the path of the file it opens
HandleFileKeepsDigest(path, fsys, maxAge, fault) ==
    IF ~HasPrefix(path, Path) THEN notFound
    ELSE LET parts == Split(path, Slash)
         IN  IF Len(parts) < 3 THEN notFound
             ELSE LET newPath == Join(SubSeq(parts, 3, Len(parts)), <<Slash>>)
                      o == DirOpen(fsys, newPath)
                  IN  IF o.kind = "none" THEN notFound
                      ELSE IF fault = <<1, "stat">> THEN notFound
                      ELSE IF o.kind = "dir" THEN notFound
                      ELSE ServeContent(
                             <<"public, max-age=", MaxAgeSeconds(maxAge)>>,
                             o.file.modTime, o.file.content)

\* func Handle(w http.ResponseWriter, r *http.Request) of the variant: the
\* response to a GET of path (parts[3:] of the source is what follows the
\* third part here)
HandleFileResult(path, fsys, maxAge, fault) ==
    IF ~HasPrefix(path, Path) THEN notFound
    ELSE LET parts == Split(path, Slash)
         IN  IF Len(parts) < 3 THEN notFound
             ELSE LET newPath == Join(SubSeq(parts, 4, Len(parts)), <<Slash>>)
                      o == DirOpen(fsys, newPath)
                  IN  IF o.kind = "none" THEN notFound
                      ELSE IF fault = <<1, "stat">> THEN notFound
                      ELSE IF o.kind = "dir" THEN notFound
                      ELSE ServeContent(
                             <<"public, max-age=", MaxAgeSeconds(maxAge)>>,
                             o.file.modTime, o.file.content)

\* what follows the digest in the paths requested of the variant: nothing, a
\* slash, a name of the root with or without a slash after it, a directory
Rests ==
    {<<>>, <<Slash>>, <<Slash>> \o NameA, <<Slash>> \o NameB,
     <<Slash>> \o NameA \o <<Slash>>, <<Slash, "j", "s">>}

\* the paths requested of the variant
FilePaths ==
    {Path \o d \o r : d \in {UnknownDigest, <<>>}, r \in Rests}
    \cup {SubSeq(Path, 1, Len(Path) - 1), <<Slash>> \o NameA}
    \cup (IF last.op = "URLOfFile" /\ last.err = "" THEN {last.url} ELSE {})

\* a call of the variant's URL(name)
URLOfFile(name, fault) ==
    LET r == URLOfFileResult(name, fs, fault)
    IN  /\ last' = [NoCall EXCEPT !.op = "URLOfFile", !.names = <<name>>,
                                  !.err = r.err, !.url = r.url, !.key = r.key,
                                  !.content = r.content]
        /\ UNCHANGED <<fs, cache, cacheMaxAge, cacheEnable, held, threads,
                       noted, helpers>>

\* a GET request for path dispatched to the variant's Handle; err records a
\* failing Stat
HandleFile(path, fault) ==
    /\ last' = [NoCall EXCEPT
                  !.op = "HandleFile", !.path = path,
                  !.err = IF fault = NoFault THEN "" ELSE fault[2],
                  !.resp = HandleFileResult(path, fs, cacheMaxAge, fault)]
    /\ UNCHANGED <<fs, cache, cacheMaxAge, cacheEnable, held, threads, noted,
                   helpers>>

InitFiles == InitWith(MaxAges, {TRUE})

NextFiles ==
    \/ \E name \in Names, content \in Contents, modTime \in ModTimes :
          WriteFile(name, content, modTime)
    \/ \E name \in Names : RemoveFile(name)
    \/ \E name \in Names, fault \in {NoFault, <<1, "read">>} :
          URLOfFile(name, fault)
    \/ \E path \in FilePaths, fault \in {NoFault, <<1, "stat">>} :
          HandleFile(path, fault)

SpecFiles == InitFiles /\ [][NextFiles]_vars

\* ------------------------------------------------------ the HTML helpers
\* the name of a helper's HTML method in the record of a call
HTMLOp ==
    [h \in Helpers |->
        CASE h = "LinkStyle" -> "LinkStyle.HTML"
          [] h = "Script" -> "Script.HTML"
          [] h = "Img" -> "Img.HTML"]

\* HTML as it would be if it resolved on every call
HTMLAlwaysResolves(h, helper, fsys, table, enable, fault) ==
    LET r == IF h = "Img"
             THEN URLResult(HelperSrc[h][1], fsys, table, fault)
             ELSE CombinedURLResult(HelperSrc[h], fsys, table, fault)
    IN  IF r.err # ""
        THEN [node |-> <<>>, err |-> r.err, helper |-> helper,
              table |-> r.table, names |-> HelperSrc[h], key |-> <<>>,
              content |-> <<>>]
        ELSE [node |-> <<r.url>>, err |-> "",
              helper |-> [helper EXCEPT !.cache = <<r.url>>],
              table |-> r.table, names |-> HelperSrc[h], key |-> r.key,
              content |-> r.content]

\* func (l *LinkStyle) HTML(), func (l *Script) HTML(), func (i *Img) HTML():
\* the node and error returned, the helper and the table the call leaves, and
\* the names resolved (none when the cache field was returned)
HTMLResult(h, helper, fsys, table, enable, fault) ==
    IF ~enable \/ helper.cache = <<>>
    THEN LET r == IF h = "Img"
                  THEN URLResult(HelperSrc[h][1], fsys, table, fault)
                  ELSE CombinedURLResult(HelperSrc[h], fsys, table, fault)
         IN  IF r.err # ""
             THEN [node |-> <<>>, err |-> r.err, helper |-> helper,
                   table |-> r.table, names |-> HelperSrc[h], key |-> <<>>,
                   content |-> <<>>]
             ELSE [node |-> <<r.url>>, err |-> "",
                   helper |-> [helper EXCEPT !.cache = <<r.url>>],
                   table |-> r.table, names |-> HelperSrc[h], key |-> r.key,
                   content |-> r.content]
    ELSE [node |-> helper.cache, err |-> "", helper |-> helper,
          table |-> table, names |-> <<>>, key |-> <<>>, content |-> <<>>]

\* a call of HTML() on helper h
HTML(h, fault) ==
    LET r == HTMLResult(h, helpers[h], fs, cache, cacheEnable, fault)
    IN  /\ Cardinality(DOMAIN r.table) <= MaxCache
        /\ helpers' = [helpers EXCEPT ![h] = r.helper]
        /\ cache' = r.table
        /\ last' = [NoCall EXCEPT
                      !.op = HTMLOp[h], !.names = r.names, !.err = r.err,
                      !.url = IF r.node = <<>> THEN <<>> ELSE r.node[1],
                      !.key = r.key, !.content = r.content]
        /\ UNCHANGED <<fs, cacheMaxAge, cacheEnable, held, threads, noted>>

InitHelpers == InitWith({DefaultMaxAge}, {TRUE, FALSE})

NextHelpers ==
    \/ \E name \in Names, content \in Contents :
          WriteFile(name, content, MaxTime)
    \/ \E name \in Names : RemoveFile(name)
    \/ \E h \in Helpers : \E fault \in Faults(HelperSrc[h]) : HTML(h, fault)

SpecHelpers == InitHelpers /\ [][NextHelpers]_vars

\* ------------------------------------------------- concurrent goroutines
\* net/http runs Handle, and the page rendering that calls CombinedURL, on one
\* goroutine per request.  A Go map operation is not atomic and the package
\* takes no lock around it: a store (cache[hexS] = ce) and a lookup
\* (cache[parts[2]]) each span a begin and an end step.  A store that overlaps
\* another map operation is a data race: the Go runtime may stop the process
\* ("fatal error: concurrent map writes"), or the operation completes and a
\* racing lookup sees the table as it was before or after the store.

\* a store or lookup of thread t overlaps a store of another thread
Overlaps(t) ==
    \E u \in Threads \ {t} :
        \/ threads[u].pc = "storing" /\ threads[t].pc \in {"storing", "looking"}
        \/ threads[t].pc = "storing" /\ threads[u].pc = "looking"

\* the threads after thread t moves to state st, every operation that now
\* overlaps a store marked as raced
Moved(t, st) ==
    LET ts == [threads EXCEPT ![t] = st]
        hit(u) ==
            \E v \in Threads \ {u} :
                \/ ts[v].pc = "storing" /\ ts[u].pc \in {"storing", "looking"}
                \/ ts[u].pc = "storing" /\ ts[v].pc = "looking"
    IN  [u \in Threads |-> IF hit(u) THEN [ts[u] EXCEPT !.raced = TRUE] ELSE ts[u]]

\* the runtime stops the process
Fatal == [t \in Threads |-> [Idle EXCEPT !.pc = "fatal"]]

\* thread t enters CombinedURL(names) and runs it up to the store: the files
\* are read and hashed and the URL is built
ResolveBegin(t, names, fault) ==
    LET r == CombinedURLResult(names, fs, EmptyCache, fault)
        pending == {threads[u].key : u \in {v \in Threads : threads[v].pc \in {"store", "storing"}}}
    IN  /\ threads[t].pc = "idle"
        /\ IF r.err # ""
           THEN /\ threads' = threads
                /\ last' = [NoCall EXCEPT !.op = "CombinedURL", !.names = names,
                                          !.err = r.err]
           ELSE /\ Cardinality(DOMAIN cache \cup pending \cup {r.key}) <= MaxCache
                /\ threads' = [threads EXCEPT ![t] =
                                 [Idle EXCEPT !.pc = "store", !.key = r.key,
                                              !.ce = r.table[r.key], !.url = r.url]]
                /\ last' = last
        /\ UNCHANGED <<fs, cache, cacheMaxAge, cacheEnable, held, noted, helpers>>

\* thread t begins cache[hexS] = ce
StoreBegin(t) ==
    /\ threads[t].pc = "store"
    /\ threads' = Moved(t, [threads[t] EXCEPT !.pc = "storing"])
    /\ UNCHANGED <<fs, cache, cacheMaxAge, cacheEnable, last, held, noted, helpers>>

\* thread t ends cache[hexS] = ce and CombinedURL returns
StoreEnd(t) ==
    /\ threads[t].pc = "storing"
    /\ \/ /\ cache' = MapAssign(cache, threads[t].key, threads[t].ce)
          /\ threads' = [threads EXCEPT ![t] = Idle]
          /\ last' = [NoCall EXCEPT !.op = "CombinedURL", !.url = threads[t].url,
                                    !.key = threads[t].key,
                                    !.content = threads[t].ce.Content]
       \/ /\ threads[t].raced
          /\ threads' = Fatal
          /\ UNCHANGED <<cache, last>>
    /\ UNCHANGED <<fs, cacheMaxAge, cacheEnable, held, noted, helpers>>

\* thread t enters Handle for path and runs it up to the lookup; a path that
\* fails the checks before it is answered at once
RequestBegin(t, path) ==
    /\ threads[t].pc = "idle"
    /\ IF ~HasPrefix(path, Path) \/ Len(Split(path, Slash)) < 3
       THEN /\ threads' = threads
            /\ last' = [NoCall EXCEPT !.op = "Handle", !.path = path,
                                      !.resp = notFound]
       ELSE /\ threads' = [threads EXCEPT ![t] =
                             [Idle EXCEPT !.pc = "lookup", !.path = path]]
            /\ last' = last
    /\ UNCHANGED <<fs, cache, cacheMaxAge, cacheEnable, held, noted, helpers>>

\* thread t begins ce, ok := cache[parts[2]]
LookupBegin(t) ==
    /\ threads[t].pc = "lookup"
    /\ threads' = Moved(t, [threads[t] EXCEPT !.pc = "looking"])
    /\ UNCHANGED <<fs, cache, cacheMaxAge, cacheEnable, last, held, noted, helpers>>

\* the tables a lookup of thread t may see: the table as it is, and, when the
\* lookup raced with stores, the table with any of those stores done
Seen(t) ==
    {cache} \cup
    IF threads[t].raced
    THEN {MapAssign(cache, threads[u].key, threads[u].ce) :
             u \in {v \in Threads : threads[v].pc = "storing"}}
    ELSE {}

\* thread t ends the lookup and Handle answers
LookupEnd(t) ==
    /\ threads[t].pc = "looking"
    /\ \/ \E table \in Seen(t) :
             /\ threads' = [threads EXCEPT ![t] = Idle]
             /\ last' = [NoCall EXCEPT
                           !.op = "Handle", !.path = threads[t].path,
                           !.resp = HandleResult(threads[t].path, table,
                                                 cacheMaxAge).resp]
       \/ /\ threads[t].raced
          /\ threads' = Fatal
          /\ last' = last
    /\ UNCHANGED <<fs, cache, cacheMaxAge, cacheEnable, held, noted, helpers>>

\* the files do not change while the goroutines run
InitConc ==
    /\ InitWith({DefaultMaxAge}, {TRUE})
    /\ \A n \in Names : fs[n].exists => fs[n].content # <<>>

NextConc ==
    \E t \in Threads :
        \/ \E names \in NameLists \cup {<<n>> : n \in Names} :
              ResolveBegin(t, names, NoFault)
        \/ StoreBegin(t)
        \/ StoreEnd(t)
        \/ \E path \in RequestPaths : RequestBegin(t, path)
        \/ LookupBegin(t)
        \/ LookupEnd(t)

SpecConc == InitConc /\ [][NextConc]_vars

\* ------------------------------------------------------------------ claims
\* the digest segment of a path under the static prefix: what stands between
\* the prefix and the next slash
DigestSegment(path) ==
    LET rest == SubSeq(path, Len(Path) + 1, Len(path))
        i == IndexOf(rest, Slash)
    IN  IF i = 0 THEN rest ELSE SubSeq(rest, 1, i - 1)

\* C1: a request for exactly the URL a resolution just returned is answered
\* 200 with the bytes that resolution hashed, in order, and with
\* Cache-Control: public, max-age=<whole seconds of the configured max age>.
C1_RoundTrip ==
    (last.op = "Handle" /\ last.after # <<>>) =>
        /\ last.resp.status = 200
        /\ last.resp.body = last.after[2]
        /\ last.resp.cacheControl = <<"public, max-age=", cacheMaxAge.sec>>

\* C1 witness: the URL of ["a.js", "js/b.js"] with contents "1" and "2" was
\* requested right after it was returned, under a max age with a fraction
C1_Witness ==
    /\ last.op = "Handle"
    /\ last.after # <<>>
    /\ last.after[2] = <<"1", "2">>
    /\ last.resp.body = <<"1", "2">>
    /\ cacheMaxAge.nsec # 0

\* C4: a request outside the static prefix, with too few segments, or whose
\* digest segment is no key of the table gets 404, Cache-Control: no-cache,
\* Pragma: no-cache and the not-found body, whatever follows the digest.
C4_NotFound ==
    (/\ last.op = "Handle"
     /\ \/ Len(last.path) < Len(Path)
        \/ SubSeq(last.path, 1, Len(Path)) # Path
        \/ Len(Split(last.path, Slash)) < 3
        \/ DigestSegment(last.path) \notin DOMAIN cache) =>
        /\ last.resp.status = 404
        /\ last.resp.cacheControl = <<"no-cache">>
        /\ last.resp.pragma = "no-cache"
        /\ last.resp.body = NotFoundBody

\* C4 witness: a digest never produced, followed by the name of a file that
\* exists under the file root, while the table holds an entry
C4_Witness ==
    /\ last.op = "Handle"
    /\ last.path = Path \o UnknownDigest \o <<Slash>> \o NameB
    /\ fs[NameB].exists
    /\ cache # EmptyCache
    /\ last.resp.status = 404

\* the digest segment CombinedURL would return now for names
DigestNow(names) == CombinedURLResult(names, fs, cache, NoFault).key
ContentNow(names) == CombinedURLResult(names, fs, cache, NoFault).content
Reversed(names) == <<names[2], names[1]>>
TwoFilesResolved ==
    /\ last.op = "CombinedURL"
    /\ last.err = ""
    /\ Len(last.names) = 2

\* C5 as claimed: after CombinedURL([A, B]) of two files whose contents differ,
\* CombinedURL([B, A]) yields a different digest segment.
C5_OrderSensitive ==
    (TwoFilesResolved /\ fs[last.names[1]].content # fs[last.names[2]].content) =>
        last.key # DigestNow(Reversed(last.names))

\* C5 amended: the digest segments of CombinedURL([A, B]) and CombinedURL([B, A])
\* are equal whenever A's bytes followed by B's equal B's followed by A's, also
\* when the two contents differ; they differ only when the concatenations do.
C5_OrderOfConcatenation ==
    TwoFilesResolved =>
        /\ last.content = fs[last.names[1]].content \o fs[last.names[2]].content
        /\ (last.content = ContentNow(Reversed(last.names))
              => last.key = DigestNow(Reversed(last.names)))

\* C5 witnesses: contents that differ and commute (one is empty), and
\* contents whose two orders give different digests
C5_Witness ==
    /\ TwoFilesResolved
    /\ fs[last.names[1]].content = <<>>
    /\ fs[last.names[2]].content = <<"1">>
    /\ last.key = DigestNow(Reversed(last.names))

\* C6 as claimed: once stored, neither the content nor the modification time
\* under a key changes under any later operation.
C6_EntryImmutable ==
    [][\A k \in DOMAIN cache : k \in DOMAIN cache' /\ cache'[k] = cache[k]]_vars

\* C6 amended: an entry is never removed, and what is stored under a key
\* changes only when a later successful resolution produces that same key, which
\* overwrites the entry with the content and latest modification time it read;
\* requests, failed resolutions, file changes and resolutions producing other
\* keys leave it as it was.
C6_EntryChangesOnlyByItsKey ==
    [][\A k \in DOMAIN cache :
          /\ k \in DOMAIN cache'
          /\ cache'[k] # cache[k] =>
                /\ Resolved(last')
                /\ last'.key = k
                /\ cache'[k].Content = last'.content]_vars

\* C6 witness: a resolution stored a second key beside an entry made before
C6_Witness ==
    /\ Resolved(last)
    /\ Cardinality(DOMAIN cache) = 2
    /\ \E k \in DOMAIN cache : k # last.key /\ cache[k].ModTime = MaxTime

\* C8: a resolution that cannot open, stat or read one of its files returns an
\* error and the empty URL, and leaves the table as it was; a list naming a
\* file the root does not hold fails.
C8_AllOrNothing ==
    [][(last'.op \in {"CombinedURL", "URL"}) =>
          /\ (\E i \in 1..Len(last'.names) : ~fs[last'.names[i]].exists)
                => last'.err # ""
          /\ last'.err # "" => (last'.url = <<>> /\ cache' = cache)]_vars

\* C8 witness: the first file of the list was read, the second is missing, and
\* the table already holds an entry
C8_Witness ==
    /\ last.op = "CombinedURL"
    /\ last.err = "open"
    /\ last.url = <<>>
    /\ last.names = <<NameA, NameB>>
    /\ fs[NameA].exists
    /\ ~fs[NameB].exists
    /\ cache # EmptyCache

\* C9: a request, found or not, leaves the table as it was.
C9_HandleKeepsTable ==
    [][last'.op = "Handle" => cache' = cache]_vars

\* C9 witness: a request was not found while the table holds an entry
C9_Witness ==
    /\ last.op = "Handle"
    /\ last.resp.status = 404
    /\ cache # EmptyCache

\* C10: for the table as it is, every request under the static prefix with the
\* digest segment of the request just answered gets the same status and body,
\* whatever follows the digest.
C10_TrailerIsCosmetic ==
    (last.op = "Handle" /\ HasPrefix(last.path, Path)) =>
        \A q \in RequestPaths :
            (HasPrefix(q, Path) /\ DigestSegment(q) = DigestSegment(last.path)) =>
                LET other == HandleResult(q, cache, cacheMaxAge).resp
                IN  /\ other.status = last.resp.status
                    /\ other.body = last.resp.body

\* C10 witness: a found request with nothing after the digest, while a request
\* with the same digest and a trailer can be made
C10_Witness ==
    /\ last.op = "Handle"
    /\ last.resp.status = 200
    /\ last.resp.body # <<>>
    /\ \E k \in DOMAIN cache :
          /\ last.path = Path \o k
          /\ (Path \o k \o <<Slash>> \o NameB) \in RequestPaths

\* the rest of a path under the static prefix after its digest segment and
\* the slash that ends it
Trailer(path) ==
    LET rest == SubSeq(path, Len(Path) + 1, Len(path))
        i == IndexOf(rest, Slash)
    IN  IF i = 0 THEN <<>> ELSE SubSeq(rest, i + 1, Len(rest))

\* C2 as claimed: every 200 response for a URL a client holds carries the
\* bytes that were hashed when the resolver returned that URL, whatever file
\* changes, resolutions and requests happened since.
C2_ContentAddressed ==
    (/\ last.op = "Handle"
     /\ held # <<>>
     /\ last.path = held[1]
     /\ last.resp.status = 200) => last.resp.body = held[2]

\* C3 as claimed: no store to the table overlaps another store or a lookup.
C3_NoOverlap ==
    \A t \in Threads : ~Overlaps(t)

\* C7 as claimed: with static.cache off, a request naming a file that exists
\* under the file root is served that file's current bytes, also when the
\* table has no entry for its digest segment.
C7_DisabledCacheServesFiles ==
    (/\ ~cacheEnable
     /\ last.op = "Handle"
     /\ HasPrefix(last.path, Path)
     /\ Trailer(last.path) \in Names
     /\ fs[Trailer(last.path)].exists) =>
        /\ last.resp.status = 200
        /\ last.resp.body = fs[Trailer(last.path)].content

\* the files of the list noted exist and hold the content they held when
\* the list was noted
NotedUnchanged ==
    \A i \in 1..Len(noted[1]) :
        /\ fs[noted[1][i]].exists
        /\ fs[noted[1][i]].content = noted[3][i]

\* C11: a resolution of the list of names noted from an earlier resolution,
\* the named files holding the content they held then, returns the URL the
\* earlier resolution returned, whatever resolutions, requests, removals and
\* modification-time changes happened in between.
C11_Determinism ==
    (/\ Resolved(last)
     /\ noted # <<>>
     /\ last.names = noted[1]
     /\ NotedUnchanged) => last.url = noted[2]

\* C11 witness: ["a.js", "js/b.js"] resolved again after a file of the list
\* was touched and another list was resolved in between
C11_Witness ==
    /\ Resolved(last)
    /\ noted # <<>>
    /\ noted[1] = <<NameA, NameB>>
    /\ last.names = noted[1]
    /\ NotedUnchanged
    /\ noted[3] = <<<<"1">>, <<"2">>>>
    /\ fs[NameA].modTime = MaxTime
    /\ cache[last.key].ModTime = MaxTime
    /\ Cardinality(DOMAIN cache) = 2
    /\ last.url = noted[2]

\* C12 as claimed: a resolution of the list of names noted from an earlier
\* resolution, made after one byte of one of its files was changed, returns a
\* URL with a different digest segment.
C12_ContentSensitive ==
    (/\ Resolved(last)
     /\ noted # <<>>
     /\ last.names = noted[1]
     /\ \E i \in 1..Len(noted[1]) :
           /\ Len(fs[noted[1][i]].content) = Len(noted[3][i])
           /\ Cardinality({j \in 1..Len(noted[3][i]) :
                              fs[noted[1][i]].content[j] # noted[3][i][j]}) = 1
           /\ \A k \in 1..Len(noted[1]) :
                 noted[1][k] # noted[1][i] => fs[noted[1][k]].content = noted[3][k])
        => DigestSegment(last.url) # DigestSegment(noted[2])

\* C13: in the variant without the table, a request under the static prefix
\* is answered from the file named by what follows the digest segment: 200
\* with that file's current content, its modification time and Cache-Control:
\* public, max-age=<seconds> when it opens as a file and Stat succeeds, and
\* not-found when it does not open, Stat fails or it is a directory; every
\* request with the same rest gets the same response whatever its digest.
C13_VariantServesFile ==
    (last.op = "HandleFile" /\ HasPrefix(last.path, Path)) =>
        LET o == DirOpen(fs, Trailer(last.path))
        IN  /\ IF o.kind = "file" /\ last.err = ""
               THEN /\ last.resp.status = 200
                    /\ last.resp.body = o.file.content
                    /\ last.resp.lastModified = o.file.modTime
                    /\ last.resp.cacheControl =
                          <<"public, max-age=", cacheMaxAge.sec>>
               ELSE /\ last.resp.status = 404
                    /\ last.resp.cacheControl = <<"no-cache">>
                    /\ last.resp.pragma = "no-cache"
                    /\ last.resp.body = NotFoundBody
            /\ \A q \in FilePaths :
                  (HasPrefix(q, Path) /\ Trailer(q) = Trailer(last.path)) =>
                      LET other == HandleFileResult(q, fs, cacheMaxAge,
                                     IF last.err = "" THEN NoFault
                                     ELSE <<1, "stat">>)
                      IN  /\ other.status = last.resp.status
                          /\ other.status = 200 => other.body = last.resp.body

\* C13 witness: js/b.js served under a digest that is not its own, with the
\* content and modification time it has now
C13_Witness ==
    /\ last.op = "HandleFile"
    /\ last.path = Path \o UnknownDigest \o <<Slash>> \o NameB
    /\ last.resp.status = 200
    /\ last.resp.body = <<"2">>
    /\ last.resp.lastModified = MaxTime
    /\ cache = EmptyCache

\* the contents of the named files one after the other, and the latest of
\* their modification times (0, the zero time, for no names)
RECURSIVE ConcatOf(_)
ConcatOf(names) ==
    IF names = <<>> THEN <<>>
    ELSE fs[Head(names)].content \o ConcatOf(Tail(names))

LatestOf(names) ==
    IF names = <<>> THEN 0
    ELSE CHOOSE m \in {fs[names[i]].modTime : i \in 1..Len(names)} :
            \A i \in 1..Len(names) : fs[names[i]].modTime <= m

\* C14: a successful resolution leaves, under the digest segment of the URL
\* it returns, the named files' contents concatenated in list order with the
\* latest of their modification times, whatever was stored under that key
\* before; the table gains at most that key and every other entry is as it was.
C14_StoresEntry ==
    [][Resolved(last') =>
          LET k == DigestSegment(last'.url)
          IN  /\ DOMAIN cache' = DOMAIN cache \cup {k}
              /\ cache'[k].Content = ConcatOf(last'.names)
              /\ cache'[k].ModTime = LatestOf(last'.names)
              /\ \A j \in DOMAIN cache \ {k} : cache'[j] = cache[j]]_vars

\* C14 witness: two files resolved, the first the later modified, beside an
\* entry under another key
C14_Witness ==
    /\ Resolved(last)
    /\ last.names = <<NameA, NameB>>
    /\ fs[NameA].modTime = MaxTime
    /\ fs[NameB].modTime = 1
    /\ cache[last.key] = CacheEntry(<<"1", "2">>, MaxTime)
    /\ Cardinality(DOMAIN cache) = 2

\* C15: with static.cache on, HTML() on a helper whose cache field is set
\* returns that field, resolves no names and leaves the table and the
\* helpers as they were, whatever the files are now; on a helper whose cache
\* field is not set it resolves, and sets the field to the node with the URL
\* returned, or returns the error and leaves the field unset.
C15_Memoized ==
    [][\A h \in Helpers :
          (cacheEnable /\ last'.op = HTMLOp[h]) =>
              IF helpers[h].cache # <<>>
              THEN /\ last'.err = ""
                   /\ last'.url = helpers[h].cache[1]
                   /\ last'.names = <<>>
                   /\ cache' = cache
                   /\ helpers' = helpers
              ELSE /\ last'.names = HelperSrc[h]
                   /\ last'.err # "" =>
                         (helpers'[h].cache = <<>> /\ last'.url = <<>>)
                   /\ last'.err = "" => helpers'[h].cache = <<last'.url>>]_vars

\* C15 witness: the LinkStyle's HTML() returned its cache field although a
\* file it refers to is gone and the other has changed since
C15_Witness ==
    /\ cacheEnable
    /\ last.op = HTMLOp["LinkStyle"]
    /\ last.names = <<>>
    /\ last.err = ""
    /\ helpers["LinkStyle"].cache = <<last.url>>
    /\ helpers["Img"].cache = <<>>
    /\ ~fs[NameA].exists
    /\ fs[NameB].modTime = MaxTime

\* C16: no step takes a key out of the table, and every request for a URL
\* that a resolution returned and a client kept is answered 200, whatever
\* resolutions (failed or not), file changes, removals and requests happened
\* since the URL was returned.
C16_NeverRemoved ==
    [][/\ DOMAIN cache \subseteq DOMAIN cache'
       /\ (last'.op = "Handle" /\ held' # <<>> /\ last'.path = held'[1]) =>
              last'.resp.status = 200]_vars

\* C16 witness: the URL kept is found after every file was removed and
\* another key was stored
C16_Witness ==
    /\ last.op = "Handle"
    /\ held # <<>>
    /\ last.path = held[1]
    /\ last.resp.status = 200
    /\ \A n \in Names : ~fs[n].exists
    /\ Cardinality(DOMAIN cache) = 2

\* the first 10 hex characters of the sum of no bytes
EmptyDigest == HexPrefix(Md5Hex(Md5Write(Md5New, <<>>)))

\* C17: CombinedURL of no names returns no error and the URL made of the
\* static prefix and the digest of no bytes, with nothing after the digest,
\* and leaves under that digest an entry of no content with the zero
\* modification time; a request for that URL right after is answered 200 with
\* an empty body and no Last-Modified.
C17_EmptyList ==
    /\ (last.op = "CombinedURL" /\ last.names = <<>>) =>
           /\ last.err = ""
           /\ last.url = Path \o EmptyDigest
           /\ EmptyDigest \in DOMAIN cache
           /\ cache[EmptyDigest] = CacheEntry(<<>>, 0)
    /\ (last.op = "Handle" /\ last.after # <<>>
           /\ last.path = Path \o EmptyDigest) =>
           /\ last.resp.status = 200
           /\ last.resp.body = <<>>
           /\ last.resp.lastModified = 0

\* C17 witness: the URL of no names was requested right after it was
\* returned, while the file root holds files with content
C17_Witness ==
    /\ last.op = "Handle"
    /\ last.after = <<Path \o EmptyDigest, <<>>>>
    /\ last.path = Path \o EmptyDigest
    /\ last.resp.status = 200
    /\ last.resp.body = <<>>
    /\ \A n \in Names : fs[n].exists /\ fs[n].content # <<>>

\* digest segments that are not 10 characters long: none, one character, a
\* key of the table cut by one character or longer by one
OddDigests ==
    {<<>>, <<"d">>}
    \cup {SubSeq(k, 1, Len(k) - 1) : k \in DOMAIN cache}
    \cup {k \o <<"0">> : k \in DOMAIN cache}

\* C18: every key of the table is 10 characters long, each a lowercase hex
\* digit; and every request under the static prefix whose digest segment is
\* empty or not 10 characters long is answered 404, with or without a trailer.
C18_KeysAreDigests ==
    /\ \A k \in DOMAIN cache :
          /\ Len(k) = 10
          /\ \A i \in 1..Len(k) :
                k[i] \in {"0", "1", "2", "3", "4", "5", "6", "7", "8", "9",
                          "a", "b", "c", "d", "e", "f"}
    /\ \A d \in OddDigests, t \in Trailers :
          HandleResult(Path \o d \o t, cache, cacheMaxAge).resp.status = 404
    /\ (/\ last.op = "Handle"
        /\ HasPrefix(last.path, Path)
        /\ Len(DigestSegment(last.path)) # 10) => last.resp.status = 404

\* C18 witness: the path "/static/" itself was requested and not found while
\* the table holds two entries
C18_Witness ==
    /\ last.op = "Handle"
    /\ last.path = Path
    /\ last.resp.status = 404
    /\ Cardinality(DOMAIN cache) = 2

====
